---------------------------- MODULE Spec2Model ----------------------------
(***************************************************************************)
(* Model of src/prayer_hall.py: the row builder (build_rows), the row      *)
(* marking, cut-interval merging and leftover computation of               *)
(* plot_prayer_hall, and the pipeline of ForcedHeightGUI.on_plot.          *)
(*                                                                         *)
(* Lengths are exact numbers on an integer grid (one unit = one grid       *)
(* step); the rounding of Python floats is not modelled.  A row is the     *)
(* tuple <<row_index, y_start, y_end>>, a column the tuple                 *)
(* <<label, cx, cy, radius>>, an interval the tuple <<start, end>>, as in  *)
(* the source.                                                             *)
(***************************************************************************)
EXTENDS Integers, Sequences, FiniteSets, TLC

VARIABLES
    total_length,       \* build_rows argument (on_plot: L)
    default_height,     \* build_rows argument (on_plot: def_h)
    forced_heights,     \* build_rows argument: dict row_index -> height
    rows,               \* build_rows local: list of (i, y_start, y_end)
    cur_y,              \* build_rows local
    i,                  \* build_rows local
    pc,                 \* position in the code
    outcome,            \* "running" | "returned" (build_rows has no raise)
    hall_width,         \* plot_prayer_hall argument (on_plot: W)
    columns,            \* plot_prayer_hall argument
    columns_to_ignore,  \* plot_prayer_hall argument
    row_data,           \* plot_prayer_hall local
    drawn,              \* labels of the circles added to the axes
    summary,            \* the printed row summary, one record per row
    cuts,               \* input of the merge step
    merged,             \* output of the merge step
    remerged            \* output of the merge step applied to its output

vars == <<total_length, default_height, forced_heights, rows, cur_y, i, pc,
          outcome, hall_width, columns, columns_to_ignore, row_data, drawn,
          summary, cuts, merged, remerged>>

rowVars == <<total_length, default_height, forced_heights, rows, cur_y, i, outcome>>
plotVars == <<hall_width, columns, columns_to_ignore, row_data, drawn, summary>>
mergeVars == <<cuts, merged, remerged>>

---------------------------------------------------------------------------
(* Bounds of the model *)

MaxLen == 5
MaxHeight == 3
MaxForcedIdx == 2
MaxIter == 12
MaxCols == 2
MaxWidth == 4
MaxCoord == 3
MaxIntervals == 3

Max(a, b) == IF a >= b THEN a ELSE b

---------------------------------------------------------------------------
(* build_rows *)

\* forced_heights.get(i, default_height)
ForcedGet(fh, idx, dh) == IF idx \in DOMAIN fh THEN fh[idx] ELSE dh

\* the loop's exit test, cur_y >= total_length
Exhausted_strict(cur, tl) == cur > tl

Exhausted(cur, tl) == cur >= tl

\* y_end = cur_y + forced_h, clamped to total_length
RowEnd_noClamp(cur, h, tl) == cur + h

RowEnd(cur, h, tl) == IF cur + h > tl THEN tl ELSE cur + h

\* one pass through the loop body: a row is appended, the cursor advances
BuildRowsIter ==
    /\ pc = "build"
    /\ ~Exhausted(cur_y, total_length)
    /\ i <= MaxIter
    /\ LET forced_h == ForcedGet(forced_heights, i, default_height)
           y_end == RowEnd(cur_y, forced_h, total_length)
       IN  /\ rows' = Append(rows, <<i, cur_y, y_end>>)
           /\ cur_y' = y_end
           /\ i' = i + 1
           /\ IF Exhausted(y_end, total_length)
                 THEN pc' = "built" /\ outcome' = "returned"
                 ELSE pc' = "build" /\ outcome' = outcome
    /\ UNCHANGED <<total_length, default_height, forced_heights>>
    /\ UNCHANGED plotVars
    /\ UNCHANGED mergeVars

\* the test at the top of the loop breaks before any row is built
BuildRowsBreak ==
    /\ pc = "build"
    /\ Exhausted(cur_y, total_length)
    /\ pc' = "built"
    /\ outcome' = "returned"
    /\ UNCHANGED <<total_length, default_height, forced_heights, rows, cur_y, i>>
    /\ UNCHANGED plotVars
    /\ UNCHANGED mergeVars

ForcedMaps == UNION {[D -> -1..MaxHeight] : D \in SUBSET (1..MaxForcedIdx)}

NoPlot ==
    /\ hall_width = 0
    /\ columns = <<>>
    /\ columns_to_ignore = {}
    /\ row_data = <<>>
    /\ drawn = <<>>
    /\ summary = <<>>

NoMerge ==
    /\ cuts = <<>>
    /\ merged = <<>>
    /\ remerged = <<>>

BuildStart ==
    /\ rows = <<>>
    /\ cur_y = 0
    /\ i = 1
    /\ pc = "build"
    /\ outcome = "running"

Init ==
    /\ total_length \in -1..MaxLen
    /\ default_height \in -1..MaxHeight
    /\ forced_heights \in ForcedMaps
    /\ BuildStart
    /\ NoPlot
    /\ NoMerge

Next == BuildRowsIter \/ BuildRowsBreak

Spec == Init /\ [][Next]_vars

\* the loop runs on: no step of build_rows waits for anything
FairSpec == Spec /\ WF_vars(Next)

---------------------------------------------------------------------------
(* plot_prayer_hall: marking the rows *)

in_band_closedEnd(cy, ystart, yend) == (cy >= ystart) /\ (cy <= yend)

in_band_openStart(cy, ystart, yend) == (cy > ystart) /\ (cy < yend)

in_band(cy, ystart, yend) == (cy >= ystart) /\ (cy < yend)

\* the columns that affect the custom logic
custom_cols_all(cols, ignore) == cols

custom_cols(cols, ignore) == SelectSeq(cols, LAMBDA c : c[1] \notin ignore)

\* the entry of row_data for one row: (idx, ys, ye, is_custom, row_cols)
MarkRow(row, ccols) ==
    LET row_cols == SelectSeq(ccols, LAMBDA c : in_band(c[3], row[2], row[3]))
    IN  <<row[1], row[2], row[3], row_cols # <<>>, row_cols>>

---------------------------------------------------------------------------
(* plot_prayer_hall: cut intervals, merge, leftover *)

\* a column's horizontal span, clamped to [0, hall_width]
CutSpan(c, w) ==
    LET x_min == c[2] - c[4]
        x_max == c[2] + c[4]
    IN  <<IF x_min < 0 THEN 0 ELSE x_min, IF x_max > w THEN w ELSE x_max>>

\* cuts: the clamped spans of the row's columns that keep a positive width
Cuts(row_cols, w) ==
    SelectSeq([k \in 1..Len(row_cols) |-> CutSpan(row_cols[k], w)],
              LAMBDA iv : iv[2] > iv[1])

\* cuts.sort(key=lambda x: x[0]): a stable sort by start
RECURSIVE SortByStart(_)
SortByStart(cs) ==
    IF cs = <<>> THEN <<>>
    ELSE LET n == Len(cs)
             last == cs[n]
             front == SortByStart(SubSeq(cs, 1, n - 1))
             keep == SelectSeq(front, LAMBDA iv : iv[1] <= last[1])
             after == SelectSeq(front, LAMBDA iv : iv[1] > last[1])
         IN  keep \o <<last>> \o after

\* the body of the merge loop: iv is folded into the last merged span when
\* it starts at or before that span's end, and appended otherwise
MergeInto_strict(mg, iv) ==
    IF mg = <<>> THEN <<iv>>
    ELSE LET prev == mg[Len(mg)]
         IN  IF iv[1] < prev[2]
                THEN [mg EXCEPT ![Len(mg)] = <<prev[1], Max(prev[2], iv[2])>>]
                ELSE Append(mg, iv)

MergeInto(mg, iv) ==
    IF mg = <<>> THEN <<iv>>
    ELSE LET prev == mg[Len(mg)]
         IN  IF iv[1] <= prev[2]
                THEN [mg EXCEPT ![Len(mg)] = <<prev[1], Max(prev[2], iv[2])>>]
                ELSE Append(mg, iv)

RECURSIVE MergeLoop(_, _)
MergeLoop(mg, cs) ==
    IF cs = <<>> THEN mg ELSE MergeLoop(MergeInto(mg, Head(cs)), Tail(cs))

\* a merge loop that compares each span with the previous input span
\* instead of the span accumulated so far
RECURSIVE MergeLoopPrevInput(_, _, _)
MergeLoopPrevInput(mg, before, cs) ==
    IF cs = <<>> THEN mg
    ELSE LET iv == Head(cs)
             acc == mg[Len(mg)]
         IN  MergeLoopPrevInput(
                 IF mg = <<>> THEN <<iv>>
                 ELSE IF iv[1] <= before[2]
                         THEN [mg EXCEPT ![Len(mg)] = <<acc[1], Max(acc[2], iv[2])>>]
                         ELSE Append(mg, iv),
                 iv, Tail(cs))

MergeCuts_prevInput(cs) == MergeLoopPrevInput(<<>>, <<0, 0>>, SortByStart(cs))

\* the merge step: sort by start, then fold
MergeCuts(cs) == MergeLoop(<<>>, SortByStart(cs))

\* the leftover loop: the gaps before each merged span
RECURSIVE LeftoverLoop(_, _, _)
LeftoverLoop(lo, start_x, mg) ==
    IF mg = <<>> THEN <<lo, start_x>>
    ELSE LET cstart == Head(mg)[1]
             cend == Head(mg)[2]
         IN  LeftoverLoop(IF cstart > start_x THEN Append(lo, <<start_x, cstart>>) ELSE lo,
                          cend, Tail(mg))

Leftover_noTrailing(mg, w) == LeftoverLoop(<<>>, 0, mg)[1]

\* leftover: the gaps, and the gap after the last merged span when there is one
Leftover(mg, w) ==
    LET walked == LeftoverLoop(<<>>, 0, mg)
    IN  IF walked[2] < w THEN Append(walked[1], <<walked[2], w>>) ELSE walked[1]

\* what the console summary prints for one entry of row_data
RowSummary(rd, w) ==
    IF ~rd[4]
       THEN [row |-> rd[1], row_type |-> "Normal", cols |-> <<>>,
             cut_intervals |-> <<>>, leftover |-> <<>>]
       ELSE LET mg == MergeCuts(Cuts(rd[5], w))
            IN  [row |-> rd[1], row_type |-> "Custom",
                 cols |-> [k \in 1..Len(rd[5]) |-> rd[5][k][1]],
                 cut_intervals |-> mg, leftover |-> Leftover(mg, w)]

\* on_plot calls plot_prayer_hall with the rows build_rows returned
PlotMarkRows ==
    /\ pc = "built"
    /\ row_data' = [k \in 1..Len(rows) |->
                       MarkRow(rows[k], custom_cols(columns, columns_to_ignore))]
    /\ pc' = "draw"
    /\ UNCHANGED rowVars
    /\ UNCHANGED <<hall_width, columns, columns_to_ignore, drawn, summary>>
    /\ UNCHANGED mergeVars

\* every column is drawn as a circle with its label
PlotDrawColumns ==
    /\ pc = "draw"
    /\ drawn' = [k \in 1..Len(columns) |-> columns[k][1]]
    /\ pc' = IF row_data = <<>> THEN "done" ELSE "summary"
    /\ UNCHANGED rowVars
    /\ UNCHANGED <<hall_width, columns, columns_to_ignore, row_data, summary>>
    /\ UNCHANGED mergeVars

\* one pass through the summary loop
PlotPrintRow ==
    /\ pc = "summary"
    /\ summary' = Append(summary, RowSummary(row_data[Len(summary) + 1], hall_width))
    /\ pc' = IF Len(summary) + 1 = Len(row_data) THEN "done" ELSE "summary"
    /\ UNCHANGED rowVars
    /\ UNCHANGED <<hall_width, columns, columns_to_ignore, row_data, drawn>>
    /\ UNCHANGED mergeVars

\* the inputs of on_plot tried in the pipeline: (L, def_h, forced_heights)
PlotBuilds ==
    {<<0, 2, <<>>>>, <<MaxLen - 1, 2, <<>>>>, <<MaxLen - 1, 1, <<2>>>>,
     <<MaxLen - 2, 2, (2 :> -1)>>}

\* (cx, radius): left of the hall, across x = 0, inside, of radius 0, across
\* x = MaxWidth, right of the hall
XSpans ==
    {<<-1, 1>>, <<0, 1>>, <<2, 1>>, <<2, 0>>, <<MaxWidth, 2>>, <<MaxWidth + 1, 1>>}
Labels == {"C1", "C2"}
\* columns with their centre in the first rows, one in front of the hall
\* (cy < 0) and one at its back (cy = MaxLen - 1, the largest L tried)
ColumnPool ==
    {<<lbl, x[1], cy, x[2]>> : lbl \in Labels, x \in XSpans, cy \in {1, 2}}
        \cup {<<"C2", 2, -1, 1>>, <<"C2", 2, MaxLen - 1, 1>>}
ColumnLists == UNION {[1..n -> ColumnPool] : n \in 0..MaxCols}

InitPlot ==
    /\ \E b \in PlotBuilds :
          /\ total_length = b[1]
          /\ default_height = b[2]
          /\ forced_heights = b[3]
    /\ BuildStart
    /\ hall_width \in {MaxWidth - 1, MaxWidth}
    /\ columns \in ColumnLists
    /\ columns_to_ignore = {"C1"}
    /\ row_data = <<>>
    /\ drawn = <<>>
    /\ summary = <<>>
    /\ NoMerge

NextPlot ==
    \/ BuildRowsIter
    \/ BuildRowsBreak
    \/ PlotMarkRows
    \/ PlotDrawColumns
    \/ PlotPrintRow

SpecPlot == InitPlot /\ [][NextPlot]_vars

---------------------------------------------------------------------------
(* The merge step on its own *)

\* the merge step applied to the list of cuts
ApplyMerge ==
    /\ pc = "merge"
    /\ merged' = MergeCuts(cuts)
    /\ pc' = "merged"
    /\ UNCHANGED <<cuts, remerged>>
    /\ UNCHANGED rowVars
    /\ UNCHANGED plotVars

\* the merge step applied to its own output
ApplyMergeAgain ==
    /\ pc = "merged"
    /\ remerged' = MergeCuts(merged)
    /\ pc' = "remerged"
    /\ UNCHANGED <<cuts, merged>>
    /\ UNCHANGED rowVars
    /\ UNCHANGED plotVars

\* the (start, end) pairs with end >= start
Intervals == {<<a, b>> : a \in 0..MaxCoord, b \in 0..MaxCoord} \ 
             {<<a, b>> \in (0..MaxCoord) \X (0..MaxCoord) : b < a}
IntervalLists == UNION {[1..n -> Intervals] : n \in 0..MaxIntervals}

InitMerge ==
    /\ total_length = 0
    /\ default_height = 0
    /\ forced_heights = <<>>
    /\ rows = <<>>
    /\ cur_y = 0
    /\ i = 1
    /\ outcome = "running"
    /\ NoPlot
    /\ pc = "merge"
    /\ cuts \in IntervalLists
    /\ merged = <<>>
    /\ remerged = <<>>

NextMerge == ApplyMerge \/ ApplyMergeAgain

SpecMerge == InitMerge /\ [][NextMerge]_vars

---------------------------------------------------------------------------
(* Properties of build_rows *)

\* the height the source resolves for row k, read from the inputs
HeightOf(k) ==
    IF k \in DOMAIN forced_heights THEN forced_heights[k] ELSE default_height

\* the half-open bands [start, end) of two rows share a point
RowsOverlap(r1, r2) == Max(r1[2], r2[2]) < (IF r1[3] <= r2[3] THEN r1[3] ELSE r2[3])

\* C1: for total_length > 0 and default_height > 0, with any forced_heights,
\* the rows build_rows returns are contiguous (each row starts where the
\* previous one ends, the first at 0), pairwise non-overlapping, cover
\* exactly [0, total_length) and carry the indices 1, 2, 3, ... without gaps.
C1_RowsPartitionLength ==
    (pc = "built" /\ total_length > 0 /\ default_height > 0) =>
        /\ rows # <<>>
        /\ rows[1][2] = 0
        /\ rows[Len(rows)][3] = total_length
        /\ \A k \in 1..Len(rows) : rows[k][1] = k
        /\ \A k \in 2..Len(rows) : rows[k][2] = rows[k-1][3]
        /\ \A j, k \in 1..Len(rows) : j < k => ~RowsOverlap(rows[j], rows[k])
        /\ \A k \in 1..Len(rows) : 0 <= rows[k][2] /\ rows[k][3] <= total_length
        /\ \A y \in 0..(total_length - 1) :
              \E k \in 1..Len(rows) : rows[k][2] <= y /\ y < rows[k][3]

\* C2: once build_rows has resolved a non-positive height for a row it
\* reached, it has failed with InvalidConfiguration: it neither emits that
\* row and goes on, nor returns normally.
C2_NonPositiveHeightFails ==
    (\E k \in 1..Len(rows) : HeightOf(k) <= 0) => outcome = "InvalidConfiguration"

\* every row reached so far resolved a positive height
ReachedHeightsPositive == \A k \in 1..Len(rows) : HeightOf(k) > 0

\* C3: with all resolved heights positive, every row is exactly as long as
\* its resolved height (forced_heights[i] when i is a key, else
\* default_height), except a row whose start + height exceeds total_length:
\* that row ends at total_length, is strictly shorter than its height and is
\* the final row.  No row is longer than its resolved height.
C3_HeightsHonoredOrClamped ==
    ReachedHeightsPositive =>
        \A k \in 1..Len(rows) :
            LET r == rows[k]
                h == HeightOf(r[1])
            IN  /\ r[3] - r[2] <= h
                /\ IF r[2] + h > total_length
                      THEN /\ r[3] = total_length
                           /\ r[3] - r[2] < h
                           /\ k = Len(rows)
                           /\ pc = "built"
                      ELSE r[3] - r[2] = h

\* a returned list with a forced row of its forced height, a default row of
\* the default height and a clamped final row
C3_Witness ==
    /\ pc = "built"
    /\ ReachedHeightsPositive
    /\ Len(rows) >= 3
    /\ \E k \in 1..Len(rows) :
          /\ k \in DOMAIN forced_heights
          /\ forced_heights[k] # default_height
          /\ rows[k][3] - rows[k][2] = forced_heights[k]
    /\ \E k \in 1..Len(rows) :
          k \notin DOMAIN forced_heights /\ rows[k][3] - rows[k][2] = default_height
    /\ rows[Len(rows)][2] + HeightOf(Len(rows)) > total_length

\* default_height and every forced height are positive
PositiveHeights ==
    /\ default_height > 0
    /\ \A k \in DOMAIN forced_heights : forced_heights[k] > 0

---------------------------------------------------------------------------
(* Properties of plot_prayer_hall *)

\* column c (an index of columns) has its centre in the band of row k
CentreInRow(c, k) == rows[k][2] <= columns[c][3] /\ columns[c][3] < rows[k][3]

Ignored(c) == columns[c][1] \in columns_to_ignore

\* the pieces reported for a row: merged cut intervals, then leftover segments
Pieces(rec) == rec.cut_intervals \o rec.leftover

\* C4: for every intersected row and hall_width > 0, the merged cut
\* intervals and the leftover segments tile [0, hall_width]: every piece lies
\* inside it and has positive width, and every unit of the width lies in
\* exactly one piece.  When every span of the row is discarded after
\* clamping, the single leftover segment is [0, hall_width].
C4_CutsAndLeftoverPartitionWidth ==
    \A k \in 1..Len(summary) :
        summary[k].row_type = "Custom" =>
            LET ps == Pieces(summary[k])
            IN  /\ \A n \in 1..Len(ps) :
                      0 <= ps[n][1] /\ ps[n][1] < ps[n][2] /\ ps[n][2] <= hall_width
                /\ \A x \in 0..(hall_width - 1) :
                      Cardinality({n \in 1..Len(ps) : ps[n][1] <= x /\ x < ps[n][2]}) = 1
                /\ (\A c \in 1..Len(columns) :
                        (~Ignored(c) /\ CentreInRow(c, k)) =>
                            \/ columns[c][2] + columns[c][4] <= 0
                            \/ columns[c][2] - columns[c][4] >= hall_width)
                   => /\ summary[k].cut_intervals = <<>>
                      /\ summary[k].leftover = <<<<0, hall_width>>>>

\* an intersected row with one span discarded and one kept strictly inside
\* the hall: one cut interval, a leading and a trailing leftover segment
C4_Witness ==
    \E k \in 1..Len(summary) :
        /\ PositiveHeights
        /\ summary[k].row_type = "Custom"
        /\ Len(summary[k].cols) = 2
        /\ Len(summary[k].cut_intervals) = 1
        /\ Len(summary[k].leftover) = 2

\* C5: a row is intersected (Custom) exactly when some column that is not
\* ignored has its centre y in [start, end) of the row, whatever the
\* columns' radii and x positions; a centre on the row's end boundary does
\* not count for the row.
C5_CustomIffCentreInBand ==
    /\ \A k \in 1..Len(row_data) :
          row_data[k][4] <=> \E c \in 1..Len(columns) : ~Ignored(c) /\ CentreInRow(c, k)
    /\ \A k \in 1..Len(summary) :
          (summary[k].row_type = "Custom")
              <=> \E c \in 1..Len(columns) : ~Ignored(c) /\ CentreInRow(c, k)

\* a row left Normal although a counted column sits on its end boundary,
\* that column making the next row Custom
C5_Witness ==
    /\ pc = "done"
    /\ PositiveHeights
    /\ \E k \in 1..(Len(summary) - 1) :
          /\ summary[k].row_type = "Normal"
          /\ summary[k + 1].row_type = "Custom"
          /\ \E c \in 1..Len(columns) : ~Ignored(c) /\ columns[c][3] = rows[k][3]

LabelsListed(k) == {summary[k].cols[n] : n \in 1..Len(summary[k].cols)}

\* C6 as stated: the labels reported for an intersected row contain every
\* column whose centre y lies in the row's band, the ignored ones included.
C6_IgnoredColumnsListed ==
    \A k \in 1..Len(summary) :
        summary[k].row_type = "Custom" =>
            \A c \in 1..Len(columns) : CentreInRow(c, k) => columns[c][1] \in LabelsListed(k)

\* C6 as amended: the labels reported for an intersected row are those of
\* the columns that are not ignored and have their centre y in the row's
\* band, in input order; an ignored column is never listed, and every column
\* is drawn whatever its ignore status.
C6_OnlyCountedColumnsListed ==
    /\ \A k \in 1..Len(summary) :
          summary[k].row_type = "Custom" =>
              LET counted == SelectSeq([c \in 1..Len(columns) |-> c],
                                       LAMBDA c : ~Ignored(c) /\ CentreInRow(c, k))
              IN  summary[k].cols = [n \in 1..Len(counted) |-> columns[counted[n]][1]]
    /\ pc \in {"summary", "done"} => drawn = [c \in 1..Len(columns) |-> columns[c][1]]

\* an intersected row with an ignored column in its band that is drawn but
\* not listed
C6_Witness ==
    \E k \in 1..Len(summary) :
        /\ PositiveHeights
        /\ summary[k].row_type = "Custom"
        /\ \E c \in 1..Len(columns) :
              /\ Ignored(c)
              /\ CentreInRow(c, k)
              /\ columns[c][1] \notin LabelsListed(k)
              /\ \E n \in 1..Len(drawn) : drawn[n] = columns[c][1]

\* the rows of row_data whose row_cols hold column c
RowsOf(c) ==
    {k \in 1..Len(row_data) :
        \E n \in 1..Len(row_data[k][5]) : row_data[k][5][n] = columns[c]}

\* C10: with rows from build_rows and positive heights, a column that is
\* not ignored is attached to exactly one row when its centre y lies in
\* [0, total_length), and to no row when it is negative or >= total_length;
\* it is drawn in either case.
C10_ColumnInAtMostOneRow ==
    (PositiveHeights /\ pc \in {"summary", "done"}) =>
        \A c \in 1..Len(columns) :
            ~Ignored(c) =>
                /\ Cardinality(RowsOf(c)) =
                      IF 0 <= columns[c][3] /\ columns[c][3] < total_length THEN 1 ELSE 0
                /\ \E n \in 1..Len(drawn) : drawn[n] = columns[c][1]

\* rows built with positive heights, one counted column inside the hall
\* length and attached to a row, one at y >= total_length attached to none
C10_Witness ==
    /\ PositiveHeights
    /\ pc = "done"
    /\ Len(rows) >= 2
    /\ \E c \in 1..Len(columns) : ~Ignored(c) /\ Cardinality(RowsOf(c)) = 1
    /\ \E c \in 1..Len(columns) :
          ~Ignored(c) /\ columns[c][3] >= total_length /\ RowsOf(c) = {}

---------------------------------------------------------------------------
(* Properties of the merge step *)

\* twice the point h/2 lies in the closed span iv
Covers(iv, h) == 2 * iv[1] <= h /\ h <= 2 * iv[2]

\* C7: for any list of (start, end) pairs with end >= start the merge
\* output is sorted by start and minimal, each span ending strictly before
\* the next one starts (so touching spans come out as one), and the union
\* of the output is the union of the input.
C7_MergeSortedDisjointSameUnion ==
    pc \in {"merged", "remerged"} =>
        /\ \A k \in 1..Len(merged) : merged[k][1] <= merged[k][2]
        /\ \A k \in 1..(Len(merged) - 1) : merged[k][2] < merged[k + 1][1]
        /\ \A h \in 0..(2 * MaxCoord) :
              (\E k \in 1..Len(cuts) : Covers(cuts[k], h))
                  <=> (\E k \in 1..Len(merged) : Covers(merged[k], h))

\* an unsorted input with two spans that only touch, merged into one, and a
\* span apart from them
C7_Witness ==
    /\ pc = "merged"
    /\ Len(cuts) = 3
    /\ Len(merged) = 2
    /\ cuts[1][1] > cuts[2][1]
    /\ \E j, k \in 1..Len(cuts) :
          cuts[j][1] < cuts[j][2] /\ cuts[j][2] = cuts[k][1] /\ cuts[k][1] < cuts[k][2]

\* C8: the merge step is idempotent: applied to a list that is a merge
\* output it returns the same list.
C8_MergeIdempotent == pc = "remerged" => remerged = merged

\* a merge that changed its input and left several spans, merged again
C8_Witness ==
    /\ pc = "remerged"
    /\ Len(merged) >= 2
    /\ Len(cuts) > Len(merged)

===========================================================================
